---- MODULE Spec2Model ----
(***************************************************************************)
(* Model of signatureanalyzer/plotting/_nmf.py: the two plotting entry     *)
(* points k_dist and consensus_matrix.                                     *)
(*                                                                         *)
(* The process-wide state is the link colour palette of                    *)
(* scipy.cluster.hierarchy and the caller's objects (cmatrix, metas).      *)
(* Everything else is the frame of the call in progress; a new call        *)
(* discards the frame of the previous one.                                 *)
(*                                                                         *)
(* Conventions                                                             *)
(*  - positions are 1-based here (dgram_idx[i] = Python dgram_idx[i-1]+1); *)
(*    the loop variable idx keeps its Python (0-based) value.              *)
(*  - figure coordinates are fixed point, unit 1/10000 of the figure.      *)
(*  - y limits of k_dist are fixed point, unit 1/100.                      *)
(*  - results of the external clustering calls (linkage, dendrogram,       *)
(*    fit_predict) are chosen nondeterministically among the results the   *)
(*    libraries can give.                                                  *)
(***************************************************************************)
EXTENDS Integers, Sequences, FiniteSets, TLC

\* ------------------------------------------------------------- bounds
MaxSamples == 3      \* rows of cmatrix: 2..MaxSamples
MaxMetas == 2        \* length of the metas list: 0..MaxMetas
MaxClusters == 2     \* n_clusters: 1..MaxClusters
MaxRun == 11         \* X of k_dist is two runs of at most MaxRun equal values

\* ------------------------------------------------------------- helpers
Range(s) == {s[i] : i \in DOMAIN s}

Min(S) == CHOOSE m \in S : \A x \in S : m <= x

Max(S) == CHOOSE m \in S : \A x \in S : x <= m

Rep(v, k) == [i \in 1..k |-> v]

RECURSIVE SumOver(_, _)
SumOver(f, S) ==
  IF S = {} THEN 0
  ELSE LET x == CHOOSE y \in S : TRUE IN f[x] + SumOver(f, S \ {x})

\* All orders in which n leaves can be listed.
Perms(n) == {p \in [1..n -> 1..n] : \A i, j \in 1..n : p[i] = p[j] => i = j}

\* ------------------------------------------------------------- k_dist
\* len(X)
Len_X(X) == Len(X)

\* sns.countplot(X): one bar per distinct value, its height the number of
\* occurrences of the value in X.
RECURSIVE CountOf(_, _)
CountOf(X, v) ==
  IF X = <<>> THEN 0
  ELSE (IF Head(X) = v THEN 1 ELSE 0) + CountOf(Tail(X), v)

CountPlot(X) == [v \in Range(X) |-> CountOf(X, v)]

\* ax.get_ylim()[1] after countplot: bars are sticky at 0 and the default
\* y margin is 5%, so the automatic top is 1.05 * tallest bar (unit 1/100).
AutoTop(bars) == 105 * Max({bars[v] : v \in DOMAIN bars})

\* int(top * 0.1) for a top in unit 1/100: the whole part of a tenth of it.
IntTenth(top) == top \div 1000

\* Variant of YLim that passes only int(top*0.1) as the upper limit.
YLimDropsTop(top) == <<0, 100 * IntTenth(top)>>

\* ax.set_ylim(0, top + int(top*0.1)), in unit 1/100
YLim(top) == <<0, top + 100 * IntTenth(top)>>

\* "Aggregate of ARD-NMF (n={})".format(len(X))
TitleN(X) == Len_X(X)

\* The arrays k_dist is called with.
KInputs ==
  {Rep(k[1], q[1]) \o Rep(k[2], q[2]) :
     k \in {<<5, 7>>, <<7, 5>>, <<6, 6>>},
     q \in {r \in (0..MaxRun) \X (0..MaxRun) : r[1] + r[2] >= 1}}

NoPlot == [X |-> <<>>, bars |-> <<>>, auto |-> 0, ylim |-> <<0, 0>>, n |-> 0]

\* ------------------------------------------------------------- inputs of consensus_matrix
\* cmatrix.index: the sample names, distinct, in the caller's row order.
\* Names are 101.. so that a name is never a position.
Indexes(n) == {[i \in 1..n |-> 100 + i], [i \in 1..n |-> 100 + n + 1 - i]}

\* Entries of the metas list: the string 'aggr' or a pd.Series, here one of
\* two categorical series named m1 and m2, indexed by sample name.
MetaEntries == {"aggr", "m1", "m2"}

SeriesLoc(meta, s) ==
  IF meta = "m1" THEN s % 2 ELSE IF s = 101 THEN 1 ELSE 0

MetasValues ==
  {[isNone |-> TRUE, items |-> <<>>]} \cup
  {[isNone |-> FALSE, items |-> l] :
     l \in UNION {[1..k -> MetaEntries] : k \in 0..MaxMetas}}

\* ax.get_position() of the heatmap axes: x0 and y1, unit 1/10000.
Positions == {[x0 |-> 1250, y1 |-> 8800], [x0 |-> 2000, y1 |-> 9000]}

\* ------------------------------------------------------------- helpers of ._utils
\* series_to_colors(s)[0]: one colour per element, the colour of a value
\* being the palette entry at the rank of the value among the distinct values.
series_to_colors(s) ==
  [i \in DOMAIN s |-> 1 + Cardinality({u \in Range(s) : u < s[i]})]

\* color_list_to_matrix_and_cmap(colors): the distinct colours as a colormap
\* and, per element, the position of its colour in the colormap.
RECURSIVE SortedSeq(_)
SortedSeq(S) ==
  IF S = {} THEN <<>> ELSE <<Min(S)>> \o SortedSeq(S \ {Min(S)})

color_list_to_matrix_and_cmap(colors) ==
  LET cmap == SortedSeq(Range(colors)) IN
  [mat |-> [i \in DOMAIN colors |->
              CHOOSE j \in DOMAIN cmap : cmap[j] = colors[i]],
   cmap |-> cmap]

\* sns.heatmap(mat.T, cmap=cmap, ...): cell i is painted cmap[mat[i]].
Heatmap(mc) == [i \in DOMAIN mc.mat |-> mc.cmap[mc.mat[i]]]

\* ------------------------------------------------------------- consensus_matrix, pure parts
\* buf = y1*0.015
Buf(y1) == (y1 * 15) \div 1000

\* cmatrix.iloc[dgram_idx, dgram_idx]: the rows (samples) in leaf order
IlocRows(index, dgram_idx) == [i \in DOMAIN dgram_idx |-> index[dgram_idx[i]]]

\* The label vectors fit_predict can return for n rows and n_clusters
\* clusters: every row gets a label in 0..n_clusters-1, every label is used.
FitPredict(n, n_clusters) ==
  {c \in [1..n -> 0..(n_clusters - 1)] : Range(c) = 0..(n_clusters - 1)}

\* np.unique(clusters, return_index=True)[1]: 0-based first position of
\* each distinct label
FirstIndex(clusters) ==
  {Min({i \in DOMAIN clusters : clusters[i] = u}) - 1 : u \in Range(clusters)}

\* lines 157-170: the (hz, from, to) triples handed to ax.hlines/ax.vlines.
\* _c[1] = 0 needs at least two distinct labels.
ClusterLines(clusters) ==
  LET hz_lines == SortedSeq(FirstIndex(clusters))
      m == Len(hz_lines)
      _c == [j \in 1..m |-> IF j <= 2 THEN 0 ELSE hz_lines[j - 1]]
      _ci == [j \in 1..m |-> IF j < m THEN hz_lines[j + 1] ELSE Len(clusters)]
  IN [j \in 1..m |-> <<hz_lines[j], _c[j], _ci[j]>>]

\* Variant of TrackLeft without the -(idx*2)*buf term.
TrackLeftNoStride(x0, buf, idx) == x0 - (idx + 3) * buf

\* new_ax[0] = x0-(idx+3)*buf-(idx*2)*buf, line 201
TrackLeft(x0, buf, idx) == x0 - (idx + 3) * buf - (idx * 2) * buf

\* new_ax[2] = 2*buf
TrackWidth(buf) == 2 * buf

\* Variant of RsIndex that keeps the caller's row order (index=cmatrix.index).
RsIndexCallerOrder(index, dgram_idx) == index

\* index=cmatrix.index[dgram_idx], line 236
RsIndex(index, dgram_idx) == [i \in DOMAIN dgram_idx |-> index[dgram_idx[i]]]

\* rs = pd.DataFrame(clusters, index=...).rename(columns={0:'clusters'})
DataFrame(clusters, index) ==
  [i \in DOMAIN clusters |-> [sample |-> index[i], clusters |-> clusters[i]]]

NoFrame ==
  [n_clusters |-> 0, plot_cluster_lines |-> FALSE, x0 |-> 0, buf |-> 0,
   dgram_idx |-> <<>>, fit_rows |-> <<>>, clusters |-> <<>>,
   cluster_color_list |-> <<>>, lines |-> <<>>, it |-> 0, idx |-> 0,
   tracks |-> <<>>]

\* ------------------------------------------------------------- values
NoReturn == [tag |-> "none", fig |-> 0, rs |-> <<>>]

VARIABLES
  palette,     \* scipy.cluster.hierarchy link colour palette (process-wide)
  op,          \* the function of the current frame
  pc,          \* position in the current frame
  fig,         \* the figure made by plt.subplots in the current frame
  kd,          \* what k_dist drew
  cmatrix,     \* the caller's cmatrix (its index)
  metas,       \* the caller's metas argument
  before,      \* cmatrix and metas as they were when the call was made
  fr,          \* locals of consensus_matrix
  ret          \* the value returned to the caller

vars == <<palette, op, pc, fig, kd, cmatrix, metas, before, fr, ret>>

Init ==
  /\ palette = "default"
  /\ op = "none"
  /\ pc = "idle"
  /\ fig = 0
  /\ kd = NoPlot
  /\ cmatrix = <<>>
  /\ metas = [isNone |-> TRUE, items |-> <<>>]
  /\ before = [cmatrix |-> <<>>, metas |-> [isNone |-> TRUE, items |-> <<>>]]
  /\ fr = NoFrame
  /\ ret = NoReturn

Idle == pc = "idle"

\* k_dist(X): lines 31-40
k_dist ==
  /\ Idle
  /\ \E X \in KInputs :
       LET bars == CountPlot(X) IN
       /\ kd' = [X |-> X, bars |-> bars, auto |-> AutoTop(bars),
                 ylim |-> YLim(AutoTop(bars)), n |-> TitleN(X)]
  /\ op' = "k_dist"
  /\ fig' = 1
  /\ ret' = [tag |-> "Figure", fig |-> 1, rs |-> <<>>]
  /\ pc' = "done"
  /\ fr' = NoFrame
  /\ UNCHANGED <<palette, cmatrix, metas, before>>

\* consensus_matrix(cmatrix, ..., metas, ..., plot_cluster_lines): the
\* call and lines 78-79 (figure and colour bar axes).
Call ==
  /\ Idle
  /\ \E n \in 2..MaxSamples :
       \E index \in Indexes(n), m \in MetasValues,
          k \in 1..Min({MaxClusters, n}), lines \in BOOLEAN :
         /\ cmatrix' = index
         /\ metas' = m
         /\ before' = [cmatrix |-> index, metas |-> m]
         /\ fr' = [NoFrame EXCEPT !.n_clusters = k,
                                  !.plot_cluster_lines = lines]
  /\ op' = "consensus_matrix"
  /\ fig' = 1
  /\ kd' = NoPlot
  /\ ret' = NoReturn
  /\ pc' = "linkage"
  /\ UNCHANGED palette

\* lines 81-119: the initial linkage gives the leaf order, the heatmap is
\* drawn in that order and its position read back.
Linkage ==
  /\ pc = "linkage"
  /\ \E d \in Perms(Len(cmatrix)), pos \in Positions :
       fr' = [fr EXCEPT !.dgram_idx = d, !.x0 = pos.x0, !.buf = Buf(pos.y1)]
  /\ pc' = "cluster"
  /\ UNCHANGED <<palette, op, fig, kd, cmatrix, metas, before, ret>>

\* lines 124-131: agglomerative clustering of the reordered matrix
Cluster ==
  /\ pc = "cluster"
  /\ \E c \in FitPredict(Len(cmatrix), fr.n_clusters) :
       fr' = [fr EXCEPT !.fit_rows = IlocRows(cmatrix, fr.dgram_idx),
                        !.clusters = c,
                        !.cluster_color_list = series_to_colors(c)]
  /\ pc' = "dendrogram"
  /\ UNCHANGED <<palette, op, fig, kd, cmatrix, metas, before, ret>>

\* lines 136-151: the palette is set for the dendrogram and left set
Dendrogram ==
  /\ pc = "dendrogram"
  /\ palette' = "rainbow10"
  /\ pc' = "lines"
  /\ UNCHANGED <<op, fig, kd, cmatrix, metas, before, fr, ret>>

\* lines 156-170, plot_cluster_lines false: nothing is drawn
NoClusterLines ==
  /\ pc = "lines"
  /\ ~fr.plot_cluster_lines
  /\ pc' = "meta"
  /\ UNCHANGED <<palette, op, fig, kd, cmatrix, metas, before, fr, ret>>

\* lines 156-170, plot_cluster_lines true
DrawClusterLines ==
  /\ pc = "lines"
  /\ fr.plot_cluster_lines
  /\ Cardinality(Range(fr.clusters)) >= 2
  /\ fr' = [fr EXCEPT !.lines = ClusterLines(fr.clusters),
                      !.idx = Cardinality(Range(fr.clusters)) - 1]
  /\ pc' = "meta"
  /\ UNCHANGED <<palette, op, fig, kd, cmatrix, metas, before, ret>>

\* line 163 with a single cluster: _c[1] = 0 raises IndexError
ClusterLinesRaise ==
  /\ pc = "lines"
  /\ fr.plot_cluster_lines
  /\ Cardinality(Range(fr.clusters)) < 2
  /\ pc' = "raised"
  /\ UNCHANGED <<palette, op, fig, kd, cmatrix, metas, before, fr, ret>>

\* What is drawn on one track axes.
Track(entry, idx, colors, xlabel) ==
  [entry |-> entry,
   left |-> TrackLeft(fr.x0, fr.buf, idx),
   width |-> TrackWidth(fr.buf),
   colors |-> Heatmap(color_list_to_matrix_and_cmap(colors)),
   xlabel |-> xlabel]

\* lines 174-197: metas is None, one track with the clustering
MetasNone ==
  /\ pc = "meta"
  /\ metas.isNone
  /\ fr' = [fr EXCEPT
       !.tracks = <<Track("None", 0, fr.cluster_color_list, "Consensus")>>,
       !.idx = Cardinality(Range(fr.clusters)) - 1]
  /\ pc' = "return"
  /\ UNCHANGED <<palette, op, fig, kd, cmatrix, metas, before, ret>>

\* for idx,meta in enumerate(metas): the value enumerate binds to idx
EnumerateIdx(it, idx) == it

\* lines 200-223 and 233-234: one iteration of the loop, meta == 'aggr'.
\* The inner loops rebind idx; its last value is len(uniq)-1.
MetaAggr ==
  /\ pc = "meta"
  /\ ~metas.isNone
  /\ fr.it < Len(metas.items)
  /\ metas.items[fr.it + 1] = "aggr"
  /\ LET idx == EnumerateIdx(fr.it, fr.idx) IN
     fr' = [fr EXCEPT
       !.tracks = Append(@, Track("aggr", idx, fr.cluster_color_list,
                                  "Consensus")),
       !.it = @ + 1,
       !.idx = Cardinality(Range(fr.clusters)) - 1]
  /\ UNCHANGED <<palette, op, pc, fig, kd, cmatrix, metas, before, ret>>

\* lines 200-203 and 225-234: one iteration of the loop, meta a Series.
\* meta is rebound to the reordered series, cluster_color_list to its colours.
MetaSeries ==
  /\ pc = "meta"
  /\ ~metas.isNone
  /\ fr.it < Len(metas.items)
  /\ metas.items[fr.it + 1] # "aggr"
  /\ LET idx == EnumerateIdx(fr.it, fr.idx)
         name == metas.items[fr.it + 1]
         rows == IlocRows(cmatrix, fr.dgram_idx)
         meta == [i \in DOMAIN rows |-> SeriesLoc(name, rows[i])]
         colors == series_to_colors(meta)
     IN fr' = [fr EXCEPT
          !.cluster_color_list = colors,
          !.tracks = Append(@, Track(name, idx, colors, name)),
          !.it = @ + 1,
          !.idx = idx]
  /\ UNCHANGED <<palette, op, pc, fig, kd, cmatrix, metas, before, ret>>

\* return fig, rs (line 243)
ReturnValue(f, rs) == [tag |-> "tuple", fig |-> f, rs |-> rs]

\* lines 236-243
Return ==
  /\ \/ pc = "return"
     \/ pc = "meta" /\ ~metas.isNone /\ fr.it = Len(metas.items)
  /\ ret' = ReturnValue(fig,
              DataFrame(fr.clusters, RsIndex(cmatrix, fr.dgram_idx)))
  /\ pc' = "done"
  /\ UNCHANGED <<palette, op, fig, kd, cmatrix, metas, before, fr>>

\* The caller lets go of what the call returned (or raised) and of the
\* arguments it passed; the frame is gone. The palette is process-wide and stays.
Release ==
  /\ pc \in {"done", "raised"}
  /\ op' = "none"
  /\ pc' = "idle"
  /\ fig' = 0
  /\ kd' = NoPlot
  /\ cmatrix' = <<>>
  /\ metas' = [isNone |-> TRUE, items |-> <<>>]
  /\ before' = [cmatrix |-> <<>>, metas |-> [isNone |-> TRUE, items |-> <<>>]]
  /\ fr' = NoFrame
  /\ ret' = NoReturn
  /\ UNCHANGED palette

Next ==
  \/ Release
  \/ k_dist
  \/ Call
  \/ Linkage
  \/ Cluster
  \/ Dendrogram
  \/ NoClusterLines
  \/ DrawClusterLines
  \/ ClusterLinesRaise
  \/ MetasNone
  \/ MetaAggr
  \/ MetaSeries
  \/ Return

Spec == Init /\ [][Next]_vars

\* ------------------------------------------------------------- properties
Returned(f) == op = f /\ pc = "done"

\* C1: what consensus_matrix hands back to the caller is the figure fig
\* itself, as the docstring's Returns section says.
C1_ReturnsFig ==
  Returned("consensus_matrix") => (ret.tag = "Figure" /\ ret.fig = fig)

\* C2: once a call is over, the process-wide state outside the returned
\* value (link colour palette, the caller's cmatrix and metas) is what it
\* was before the first call.
C2_NoStateLeftBehind ==
  pc \in {"done", "raised"} =>
    /\ palette = "default"
    /\ cmatrix = before.cmatrix
    /\ metas = before.metas

\* Right edge of a track: new_ax[0] + new_ax[2]
TrackRight(t) == t.left + t.width

\* C3: with metas a list, entry i is drawn on track i, every track ends
\* strictly left of the heatmap's left edge x0, and no two tracks overlap,
\* whatever the 'aggr' branch did to idx before.
C3_TracksLeftAndDisjoint ==
  (op = "consensus_matrix" /\ ~metas.isNone /\ fr.buf > 0) =>
    /\ Len(fr.tracks) = fr.it
    /\ pc = "done" => Len(fr.tracks) = Len(metas.items)
    /\ \A i \in DOMAIN fr.tracks :
         /\ fr.tracks[i].entry = metas.items[i]
         /\ fr.tracks[i].width > 0
         /\ TrackRight(fr.tracks[i]) < fr.x0
    /\ \A i, j \in DOMAIN fr.tracks :
         i # j => \/ TrackRight(fr.tracks[i]) <= fr.tracks[j].left
                  \/ TrackRight(fr.tracks[j]) <= fr.tracks[i].left

\* A returned call whose first entry was 'aggr' with two clusters (idx left
\* at 1 by the inner loops) followed by a Series.
C3_Witness ==
  /\ Returned("consensus_matrix")
  /\ ~metas.isNone
  /\ Len(metas.items) = 2
  /\ metas.items[1] = "aggr"
  /\ metas.items[2] # "aggr"
  /\ Cardinality(Range(fr.clusters)) = 2
  /\ Len(fr.tracks) = 2

\* C4: the index of rs is cmatrix.index in dendrogram leaf order, every
\* sample exactly once, and the label in row i is the one fit_predict gave
\* to the sample named in row i.
C4_LabelsFollowSamples ==
  Returned("consensus_matrix") =>
    LET rs == ret.rs IN
    /\ ret.tag = "tuple"
    /\ Len(rs) = Len(cmatrix)
    /\ \A s \in Range(cmatrix) :
         Cardinality({i \in DOMAIN rs : rs[i].sample = s}) = 1
    /\ \A i \in DOMAIN rs :
         /\ rs[i].sample = cmatrix[fr.dgram_idx[i]]
         /\ \E j \in DOMAIN fr.fit_rows : fr.fit_rows[j] = rs[i].sample
         /\ \A j \in DOMAIN fr.fit_rows :
              fr.fit_rows[j] = rs[i].sample => rs[i].clusters = fr.clusters[j]

\* A returned call where the leaf order differs from the caller's order and
\* some sample's label differs from the label at its original position.
C4_Witness ==
  /\ Returned("consensus_matrix")
  /\ \E i \in DOMAIN cmatrix :
       /\ fr.dgram_idx[i] # i
       /\ fr.clusters[i] # fr.clusters[fr.dgram_idx[i]]
       /\ ret.rs[i].sample # cmatrix[i]

\* C5: the title of k_dist reports len(X), the y axis runs from 0 to the
\* automatic top plus int(10% of it), which is at least the tallest bar,
\* and the bar heights add up to the n of the title.
C5_CountPlotLimits ==
  Returned("k_dist") =>
    /\ kd.n = Len(kd.X)
    /\ kd.ylim[1] = 0
    /\ kd.ylim[2] = kd.auto + 100 * (kd.auto \div 1000)
    /\ \A v \in DOMAIN kd.bars : kd.ylim[2] >= 100 * kd.bars[v]
    /\ SumOver(kd.bars, DOMAIN kd.bars) = kd.n

\* A plot of two bars whose automatic top is 10 or more, so that
\* int(10% of it) is not 0.
C5_Witness ==
  /\ Returned("k_dist")
  /\ Cardinality(DOMAIN kd.bars) = 2
  /\ kd.auto \div 1000 >= 1
  /\ kd.ylim[2] > kd.auto

\* C6: every track of an 'aggr' entry shows the colours of the labels
\* fit_predict returned, wherever 'aggr' stands in metas.
C6_AggrShowsClusters ==
  op = "consensus_matrix" =>
    \A i \in DOMAIN fr.tracks :
      fr.tracks[i].entry = "aggr" =>
        fr.tracks[i].colors = series_to_colors(fr.clusters)
====
